---- MODULE Spec2Model ----
(***************************************************************************)
(* Flippy Bird backend (src/server.py): identity resolution by device and  *)
(* display name, bearer tokens, score submission and the best-score        *)
(* leaderboard, over a document store with two collections (users,         *)
(* scores).  Every request handler is a coroutine: the code between two    *)
(* awaits runs atomically, and each awaited store operation is one step.   *)
(***************************************************************************)
EXTENDS Integers, Sequences, FiniteSets, TLC

\* ------------------------------------------------------------------ bounds
MaxReqs == 3       \* requests served in one behaviour
MaxNow == 3650     \* the clock does not advance beyond MaxNow (days)
MaxTieEnum == 3    \* up to this many items, every tie order is enumerated

\* ------------------------------------------------------- program constants
ExpiryDays == 3650 \* timedelta(days=3650)
LIMIT == 50        \* {"$limit": 50}, to_list(50)

SECRET_KEY == "flippy_bird_super_secret_key_forever"

Devices == {1, 2}  \* device identifiers
Slots == {1, 2}    \* request handlers that can be in flight at the same time

\* Usernames are sequences of characters.  The set holds plain names in
\* several casings and names with characters that a pattern lookup treats
\* specially ("." any character, "+" one or more of the preceding atom,
\* "(" the start of a group, which without its end is no pattern at all).
Usernames ==
  { <<"a", "b">>, <<"A", "b">>, <<"a", ".">>, <<"b", "+">>, <<"(">> }

ScoreValues == {-1, 2}

\* ---------------------------------------------------------------- strings
Lower(c) == CASE c = "A" -> "a" [] c = "B" -> "b" [] OTHER -> c

\* Equality of two strings ignoring letter case.
EqualsIgnoreCase(x, y) ==
  /\ Len(x) = Len(y)
  /\ \A i \in 1..Len(x) : Lower(x[i]) = Lower(y[i])

\* One pattern atom against one character, with the "i" option.
AtomMatch(a, c) == a = "." \/ Lower(a) = Lower(c)

\* The text p, put between "^" and "$", is a regular expression: it has no
\* "(" (no ")" can follow in these names), and every "+" follows a letter or
\* ".", or follows the "+" of such an atom (possessive).
RegexValid(p) ==
  \A i \in 1..Len(p) :
    /\ p[i] # "("
    /\ p[i] = "+" => /\ i > 1
                     /\ (p[i - 1] = "+" => (i > 2 /\ p[i - 2] # "+"))

\* The number of leading characters of s that the atom a matches.
RECURSIVE Run(_, _)
Run(a, s) ==
  IF s # <<>> /\ AtomMatch(a, s[1]) THEN 1 + Run(a, Tail(s)) ELSE 0

\* {"$regex": "^<p>$", "$options": "i"}: the whole string s matches the
\* valid pattern p, which is the requested username inserted unescaped.
\* "x+" takes one or more x and gives back as needed; "x++" takes every x
\* there is and gives nothing back.
RECURSIVE RegexMatch(_, _)
RegexMatch(p, s) ==
  IF p = <<>> THEN s = <<>>
  ELSE IF Len(p) >= 3 /\ p[2] = "+" /\ p[3] = "+"
       THEN /\ Run(p[1], s) >= 1
            /\ RegexMatch(SubSeq(p, 4, Len(p)), SubSeq(s, Run(p[1], s) + 1, Len(s)))
  ELSE IF Len(p) >= 2 /\ p[2] = "+"
       THEN /\ s # <<>>
            /\ AtomMatch(p[1], s[1])
            /\ \/ RegexMatch(Tail(Tail(p)), Tail(s))
               \/ RegexMatch(p, Tail(s))
       ELSE /\ s # <<>>
            /\ AtomMatch(p[1], s[1])
            /\ RegexMatch(Tail(p), Tail(s))

\* ------------------------------------------------------------------ state
VARIABLES
  ping,     \* how lifespan's connection check ended: "ok", "failed", "not_run"
  db,       \* the global store handle and the store behind it: "None" (never
            \* assigned), "unreachable" (assigned, the store does not answer),
            \* "connected" (assigned, the store answers)
  now,      \* datetime.utcnow(), in days
  users,    \* db.users: sequence of documents in insertion order
  scores,   \* db.scores: sequence of documents in insertion order
  pc,       \* per handler slot: where the coroutine is suspended
  req,      \* per slot: the request being served
  loc,      \* per slot: the handler's local variables
  last,     \* the request that finished last, with its response
  initLog,  \* the finished /auth/init requests with their responses, in order
  raced,    \* a request has been received while another one was in flight
  nreq      \* number of requests received

vars == <<ping, db, now, users, scores, pc, req, loc, last, initLog, raced, nreq>>

\* ----------------------------------------------------------------- tokens
NoToken == [kind |-> "none", has_sub |-> FALSE, sub |-> 0, name |-> <<>>,
            exp |-> 0, key |-> ""]
Malformed == [NoToken EXCEPT !.kind = "malformed"]

\* Mutant of create_token: the expiry is the time of issue.
create_tokenNoLifetime(device_id, username, t) ==
  [kind |-> "jwt", has_sub |-> TRUE, sub |-> device_id, name |-> username,
   exp |-> t, key |-> SECRET_KEY]

\* create_token: payload {sub, name, exp = utcnow() + 10 years}, signed
\* with SECRET_KEY.
create_token(device_id, username, t) ==
  [kind |-> "jwt", has_sub |-> TRUE, sub |-> device_id, name |-> username,
   exp |-> t + ExpiryDays, key |-> SECRET_KEY]

\* Mutant of jwt.decode: the signature is not verified.
jwt_decode_okUnverified(token, t) ==
  /\ token.kind = "jwt"
  /\ ~(token.exp <= t)

\* jwt.decode(token, SECRET_KEY, algorithms=["HS256"]) at time t: the
\* token is a well-formed JWT, its signature was made with SECRET_KEY, and
\* it has not expired (PyJWT rejects exp <= now).
jwt_decode_ok(token, t) ==
  /\ token.kind = "jwt"
  /\ token.key = SECRET_KEY
  /\ ~(token.exp <= t)

\* get_current_user: <<device_id>> when the token verifies and carries a
\* subject, <<>> when the bare except turns the failure into 401.
get_current_user(token, t) ==
  IF jwt_decode_ok(token, t) /\ token.has_sub THEN <<token.sub>> ELSE <<>>

\* The tokens of the /auth/init responses so far.
IssuedTokens ==
  { initLog[i].access_token : i \in { j \in 1..Len(initLog) : initLog[j].status = 200 } }

\* Credentials a /scores/submit request can carry at time t: no bearer
\* header, a string that is no JWT, a token signed with another key, an
\* expired token, a token without subject, the tokens issued so far, and a
\* correctly signed token that no /auth/init response has carried (the
\* signing key is a constant of the source text).
Credentials(t) ==
  {NoToken, Malformed}
  \cup IssuedTokens
  \cup { [create_token(1, <<"a", "b">>, t) EXCEPT !.key = "another_key"] }
  \cup { [create_token(1, <<"a", "b">>, t) EXCEPT !.exp = t] }
  \cup { [create_token(1, <<"a", "b">>, t) EXCEPT !.has_sub = FALSE] }
  \cup { create_token(2, <<"a", "b">>, t) }

\* ------------------------------------------------------------ store reads
\* find_one(filter), called without sort: the possible results, <<>> when
\* no document matches, else <<doc>> for a matching document.  With several
\* matching documents the store returns the first one in its natural order,
\* which is the insertion order in many runs but which the store does not
\* fix; every matching document is a possible result.
\* hits are the positions of the documents that match the filter.
FindOne(coll, hits) ==
  IF hits = {}
  THEN { <<>> }
  ELSE { <<coll[i]>> : i \in hits }

\* db.users.find_one({"username": {"$regex": "^<username>$", "$options": "i"}})
\* for a username that is a valid pattern.
FindByName(coll, username) ==
  FindOne(coll, { i \in 1..Len(coll) : RegexMatch(username, coll[i].username) })

\* Mutants of the device lookup: the lookup finds nothing; the lookup
\* ignores its filter.
FindByDeviceNothing(coll, device_id) == { <<>> }
FindByDeviceAny(coll, device_id) == FindOne(coll, 1..Len(coll))

\* db.users.find_one({"device_id": device_id})
FindByDevice(coll, device_id) ==
  FindOne(coll, { i \in 1..Len(coll) : coll[i].device_id = device_id })

\* ----------------------------------------------------------- store writes
\* Mutants of the insert: the document is not stored; the document replaces
\* the collection.
insert_oneDropped(coll, doc) == coll
insert_oneReplace(coll, doc) == << doc >>

\* collection.insert_one(doc): the document is added to the collection.
insert_one(coll, doc) == Append(coll, doc)

\* ---------------------------------------------------------------- records
\* reads and writes count the store operations the handler has issued.
NoReq == [op |-> "none", device_id |-> 0, username |-> <<>>,
          token |-> NoToken, score |-> 0, reads |-> 0, writes |-> 0]
NoLoc == [users0 |-> <<>>, doc |-> <<>>]
NoResp == [status |-> 0, detail |-> "", access_token |-> NoToken,
           username |-> <<>>, new_user |-> FALSE, results |-> <<>>,
           entries |-> <<>>]
NoLast == [req |-> NoReq, resp |-> NoResp]

\* No request is in flight.
Quiet == \A s \in Slots : pc[s] = "idle"

\* A request is received and served by the first free handler slot.
Receive(s) ==
  /\ pc[s] = "idle"
  /\ \A r \in Slots : r < s => pc[r] # "idle"
  /\ nreq < MaxReqs
  /\ nreq' = nreq + 1
  /\ raced' = (raced \/ ~Quiet)

\* lifespan: the handle is assigned once the client object exists, before
\* the connection check; an exception (no client, or a failed check) is
\* printed and the application starts all the same.
lifespan(client_ok, ping_ok) ==
  [ping |-> IF ~client_ok THEN "not_run" ELSE IF ping_ok THEN "ok" ELSE "failed",
   db |-> IF ~client_ok THEN "None" ELSE IF ping_ok THEN "connected" ELSE "unreachable"]

\* The application has started and the store answered the connection check.
Init ==
  /\ ping = lifespan(TRUE, TRUE).ping
  /\ db = lifespan(TRUE, TRUE).db
  /\ now = 0
  /\ users = <<>>
  /\ scores = <<>>
  /\ pc = [s \in Slots |-> "idle"]
  /\ req = [s \in Slots |-> NoReq]
  /\ loc = [s \in Slots |-> NoLoc]
  /\ last = NoLast
  /\ initLog = <<>>
  /\ raced = FALSE
  /\ nreq = 0

\* The handler of slot s returns response r to request q; users0 is the
\* users collection at the request's first store read and users1 the
\* collection when the response is returned.  A finished /auth/init
\* request is appended to initLog.
Finish(s, q, users0, users1, r) ==
  /\ pc' = [pc EXCEPT ![s] = "idle"]
  /\ req' = [req EXCEPT ![s] = NoReq]
  /\ loc' = [loc EXCEPT ![s] = NoLoc]
  /\ last' = [req |-> q, resp |-> r]
  /\ initLog' = IF q.op = "init"
                THEN Append(initLog, [device_id |-> q.device_id,
                                      requested |-> q.username,
                                      users0 |-> users0,
                                      users1 |-> users1,
                                      status |-> r.status,
                                      detail |-> r.detail,
                                      reads |-> q.reads,
                                      writes |-> q.writes,
                                      username |-> r.username,
                                      new_user |-> r.new_user,
                                      access_token |-> r.access_token,
                                      at |-> now])
                ELSE initLog

\* The handler of slot s, serving q, suspends at label with locals l.
Suspend(s, q, label, l) ==
  /\ pc' = [pc EXCEPT ![s] = label]
  /\ req' = [req EXCEPT ![s] = q]
  /\ loc' = [loc EXCEPT ![s] = l]
  /\ UNCHANGED <<last, initLog>>

\* Mutant of the 200 response: every response says new_user true.
InitOkAlwaysNew(message, device_id, username, new_user) ==
  [NoResp EXCEPT !.status = 200, !.detail = message,
                 !.access_token = create_token(device_id, username, now),
                 !.username = username, !.new_user = TRUE]

\* The 200 response of initialize_user for the stored or new username.
InitOk(message, device_id, username, new_user) ==
  [NoResp EXCEPT !.status = 200, !.detail = message,
                 !.access_token = create_token(device_id, username, now),
                 !.username = username, !.new_user = new_user]

\* The response of a failed request.
Failure(status, detail) == [NoResp EXCEPT !.status = status, !.detail = detail]

\* The response to a request whose handler raised an exception that nothing
\* catches (a store operation that timed out, an attribute of None).
Crash == Failure(500, "Internal Server Error")

\* ------------------------------------------------- POST /api/auth/init
\* initialize_user up to and including the first store read: the lookup of
\* the requested name; name found -> 403 for another device, "Welcome back"
\* for the same device; otherwise the handler goes on to the device lookup.
\* A requested name that is no regular expression makes the store refuse
\* the query: find_one raises and nothing catches it.
InitializeUser_FindName(s, device_id, username) ==
  /\ Receive(s)
  /\ LET q0 == [NoReq EXCEPT !.op = "init", !.device_id = device_id,
                             !.username = username]
         q == [q0 EXCEPT !.reads = 1]
     IN IF db = "None"
        THEN Finish(s, q0, users, users, Failure(500, "Database not connected"))
        ELSE IF db = "unreachable" \/ ~RegexValid(username)
        THEN Finish(s, q, users, users, Crash)
        ELSE
        \E existing_name_user \in FindByName(users, username) :
          IF existing_name_user # <<>>
          THEN IF existing_name_user[1].device_id # device_id
               THEN Finish(s, q, users, users,
                           Failure(403, "Username taken! Please choose another."))
               ELSE Finish(s, q, users, users,
                           InitOk("Welcome back", device_id,
                                  existing_name_user[1].username, FALSE))
          ELSE Suspend(s, q, "init_find_device", [NoLoc EXCEPT !.users0 = users])
  /\ UNCHANGED <<ping, db, now, users, scores>>

\* The second store read: the lookup by device; found -> "Restored previous
\* account" under the stored name; otherwise the new document is built
\* (created_at = utcnow()) and the insert is issued.
InitializeUser_FindDevice(s) ==
  /\ pc[s] = "init_find_device"
  /\ LET q == [req[s] EXCEPT !.reads = @ + 1]
     IN \E existing_device_user \in FindByDevice(users, q.device_id) :
       IF existing_device_user # <<>>
       THEN Finish(s, q, loc[s].users0, users,
                   InitOk("Restored previous account", q.device_id,
                          existing_device_user[1].username, FALSE))
       ELSE Suspend(s, q, "init_insert",
                    [loc[s] EXCEPT !.doc = << [device_id |-> q.device_id,
                                               username |-> q.username,
                                               created_at |-> now] >>])
  /\ UNCHANGED <<ping, db, now, users, scores, raced, nreq>>

\* The store write: insert_one(new_user), then "Profile created".
InitializeUser_Insert(s) ==
  /\ pc[s] = "init_insert"
  /\ users' = insert_one(users, loc[s].doc[1])
  /\ Finish(s, [req[s] EXCEPT !.writes = @ + 1], loc[s].users0, users',
            InitOk("Profile created", req[s].device_id, req[s].username, TRUE))
  /\ UNCHANGED <<ping, db, now, scores, raced, nreq>>

\* ---------------------------------------------- POST /api/scores/submit
\* Mutant of the score document: a negative score is stored as zero.
score_docClamped(device_id, username, score, t) ==
  [device_id |-> device_id, username |-> username,
   score |-> IF score < 0 THEN 0 ELSE score, timestamp |-> t]

\* The document submit_score inserts: the device of the token, the username
\* of the user found for it, the submitted score as it came, utcnow().
score_doc(device_id, username, score, t) ==
  [device_id |-> device_id, username |-> username, score |-> score,
   timestamp |-> t]

\* The bearer dependency, get_current_user and the lookup of the user.  A
\* request without bearer header is refused by HTTPBearer before the
\* handler runs (403 or 401 "Not authenticated", by framework version).
\* The request record keeps the device once the token has been verified
\* and the score once the handler has read it.
SubmitScore_FindUser(s, token, score) ==
  /\ Receive(s)
  /\ LET q == [NoReq EXCEPT !.op = "submit", !.token = token]
         device_id == get_current_user(token, now)
     IN IF token.kind = "none"
        THEN \E status \in {401, 403} :
               Finish(s, q, users, users, Failure(status, "Not authenticated"))
        ELSE IF device_id = <<>>
        THEN Finish(s, q, users, users, Failure(401, "Invalid token"))
        ELSE IF db = "None"
        THEN Finish(s, [q EXCEPT !.device_id = device_id[1]], users, users, Crash)
        ELSE IF db = "unreachable"
        THEN Finish(s, [q EXCEPT !.device_id = device_id[1], !.reads = 1],
                    users, users, Crash)
        ELSE \E user \in FindByDevice(users, device_id[1]) :
               IF user = <<>>
               THEN Finish(s, [q EXCEPT !.device_id = device_id[1], !.reads = 1],
                           users, users, Failure(404, "User not found"))
               ELSE Suspend(s, [q EXCEPT !.device_id = device_id[1],
                                         !.score = score, !.reads = 1],
                            "submit_insert",
                            [NoLoc EXCEPT !.users0 = users,
                               !.doc = << score_doc(device_id[1],
                                                    user[1].username,
                                                    score, now) >>])
  /\ UNCHANGED <<ping, db, now, users, scores>>

\* The store write: insert_one(score document), then "Score saved".
SubmitScore_Insert(s) ==
  /\ pc[s] = "submit_insert"
  /\ scores' = insert_one(scores, loc[s].doc[1])
  /\ Finish(s, [req[s] EXCEPT !.writes = @ + 1], loc[s].users0, users,
            [NoResp EXCEPT !.status = 200, !.detail = "Score saved"])
  /\ UNCHANGED <<ping, db, now, users, raced, nreq>>

\* ------------------------------------------- GET /api/leaderboard/weekly
Min(a, b) == IF a <= b THEN a ELSE b

\* The orders in which the store may deliver items that compare equal: a
\* tie order ranks the items of S.  Every order is enumerated for up to
\* MaxTieEnum items, two opposite orders beyond that.
TieOrders(S) ==
  IF Cardinality(S) <= MaxTieEnum
  THEN Permutations(S)
  ELSE { [x \in S |-> x], [x \in S |-> 0 - x] }

\* {"$sort": {"score": -1}} over the documents docs[i], i in the sequence
\* idx: descending score, equal scores in the order tie.
SortByScore(docs, idx, tie) ==
  SortSeq(idx, LAMBDA i, j : \/ docs[i].score > docs[j].score
                             \/ /\ docs[i].score = docs[j].score
                                /\ tie[i] < tie[j])

\* Mutants of the grouping: the username is the one of the device's first
\* stored document (the stream was not sorted); the username is the one of
\* the device's last document of the sorted stream ($last for $first).
GroupByDeviceFirstStored(docs, sorted) ==
  LET ids == { docs[i].device_id : i \in 1..Len(docs) }
      first(d) == CHOOSE i \in 1..Len(docs) :
                    /\ docs[i].device_id = d
                    /\ \A j \in 1..(i - 1) : docs[j].device_id # d
      max(d) == CHOOSE v \in { docs[i].score : i \in 1..Len(docs) } :
                    /\ \E i \in 1..Len(docs) : docs[i].device_id = d /\ docs[i].score = v
                    /\ \A i \in 1..Len(docs) : docs[i].device_id = d => docs[i].score <= v
  IN [d \in ids |-> [_id |-> d, username |-> docs[first(d)].username,
                     score |-> max(d)]]

GroupByDeviceLast(docs, sorted) ==
  LET ids == { docs[i].device_id : i \in 1..Len(docs) }
      first(d) == sorted[CHOOSE k \in 1..Len(sorted) :
                    /\ docs[sorted[k]].device_id = d
                    /\ \A m \in (k + 1)..Len(sorted) : docs[sorted[m]].device_id # d]
      max(d) == CHOOSE v \in { docs[i].score : i \in 1..Len(docs) } :
                    /\ \E i \in 1..Len(docs) : docs[i].device_id = d /\ docs[i].score = v
                    /\ \A i \in 1..Len(docs) : docs[i].device_id = d => docs[i].score <= v
  IN [d \in ids |-> [_id |-> d, username |-> docs[first(d)].username,
                     score |-> max(d)]]

\* {"$group": {"_id": "$device_id", "username": {"$first": "$username"},
\* "score": {"$max": "$score"}}} over the sorted stream: per device the
\* username of the first document of the stream and the largest score.
GroupByDevice(docs, sorted) ==
  LET ids == { docs[i].device_id : i \in 1..Len(docs) }
      first(d) == CHOOSE k \in 1..Len(sorted) :
                    /\ docs[sorted[k]].device_id = d
                    /\ \A m \in 1..(k - 1) : docs[sorted[m]].device_id # d
      max(d) == CHOOSE v \in { docs[i].score : i \in 1..Len(docs) } :
                    /\ \E i \in 1..Len(docs) : docs[i].device_id = d /\ docs[i].score = v
                    /\ \A i \in 1..Len(docs) : docs[i].device_id = d => docs[i].score <= v
  IN [d \in ids |-> [_id |-> d, username |-> docs[sorted[first(d)]].username,
                     score |-> max(d)]]

\* Mutant of the limit: nothing is cut off.
LimitOff(seq, n) == seq

\* {"$limit": n} and to_list(n): the first n items.
Limit(seq, n) == SubSeq(seq, 1, Min(n, Len(seq)))

\* db.scores.aggregate(pipeline).to_list(50): sort, group, sort, limit.
\* docTie ranks the score documents and grpTie the groups (by device).
Aggregate(docs, docTie, grpTie) ==
  LET sorted == SortByScore(docs, [i \in 1..Len(docs) |-> i], docTie)
      groups == GroupByDevice(docs, sorted)
      ids == DOMAIN groups
      top == IF ids = {} THEN 0 ELSE CHOOSE d \in ids : \A e \in ids : e <= d
      idseq == SelectSeq([d \in 1..top |-> d], LAMBDA d : d \in ids)
      ranked == SortByScore(groups, idseq, grpTie)
      limited == Limit(ranked, LIMIT)
  IN Limit([k \in 1..Len(limited) |-> groups[limited[k]]], LIMIT)

\* Mutant of the ranking: entries with equal scores share a rank.
EntriesTiedRank(results) ==
  [k \in 1..Len(results) |->
     [username |-> results[k].username, score |-> results[k].score,
      rank |-> 1 + Cardinality({ m \in 1..Len(results) :
                                   results[m].score > results[k].score })]]

\* [LeaderboardEntry(username, score, rank=i+1) for i, r in enumerate(results)]
Entries(results) ==
  [k \in 1..Len(results) |-> [username |-> results[k].username,
                              score |-> results[k].score, rank |-> k]]

\* weekly_leaderboard: one aggregation over db.scores; nothing is written.
WeeklyLeaderboard(s) ==
  /\ Receive(s)
  /\ IF db = "None"
     THEN Finish(s, [NoReq EXCEPT !.op = "board"], users, users, Crash)
     ELSE IF db = "unreachable"
     THEN Finish(s, [NoReq EXCEPT !.op = "board", !.reads = 1], users, users, Crash)
     ELSE
     \E docTie \in TieOrders(1..Len(scores)) :
       \E grpTie \in TieOrders({ scores[i].device_id : i \in 1..Len(scores) }) :
         LET results == Aggregate(scores, docTie, grpTie)
         IN Finish(s, [NoReq EXCEPT !.op = "board", !.reads = 1], users, users,
                   [NoResp EXCEPT !.status = 200, !.results = results,
                                  !.entries = Entries(results)])
  /\ UNCHANGED <<ping, db, now, users, scores>>

\* The clock advances by half a token lifetime; no request stays in
\* flight that long.
Tick ==
  /\ Quiet
  /\ now + (ExpiryDays \div 2) <= MaxNow
  /\ now' = now + (ExpiryDays \div 2)
  /\ UNCHANGED <<ping, db, users, scores, pc, req, loc, last, initLog, raced, nreq>>

\* Requests are handled concurrently: the store operations of the requests
\* in flight interleave.
Next ==
  \/ \E s \in Slots, d \in Devices, n \in Usernames : InitializeUser_FindName(s, d, n)
  \/ \E s \in Slots : InitializeUser_FindDevice(s)
  \/ \E s \in Slots : InitializeUser_Insert(s)
  \/ \E s \in Slots, sc \in ScoreValues :
       \E token \in Credentials(now) : SubmitScore_FindUser(s, token, sc)
  \/ \E s \in Slots : SubmitScore_Insert(s)
  \/ \E s \in Slots : WeeklyLeaderboard(s)
  \/ Tick

Spec == Init /\ [][Next]_vars

\* The three operations handled concurrently within one day: the clock
\* stands still.
NextMix ==
  \/ \E s \in Slots, d \in Devices, n \in Usernames : InitializeUser_FindName(s, d, n)
  \/ \E s \in Slots : InitializeUser_FindDevice(s)
  \/ \E s \in Slots : InitializeUser_Insert(s)
  \/ \E s \in Slots, sc \in ScoreValues :
       \E token \in Credentials(now) : SubmitScore_FindUser(s, token, sc)
  \/ \E s \in Slots : SubmitScore_Insert(s)
  \/ \E s \in Slots : WeeklyLeaderboard(s)

SpecMix == Init /\ [][NextMix]_vars

\* InitializeUser requests only, handled concurrently.
NextRace ==
  \/ \E s \in Slots, d \in Devices, n \in Usernames : InitializeUser_FindName(s, d, n)
  \/ \E s \in Slots : InitializeUser_FindDevice(s)
  \/ \E s \in Slots : InitializeUser_Insert(s)

SpecRace == Init /\ [][NextRace]_vars

\* Requests are processed one at a time: a request is received only when
\* no other request is in flight.
NextSeq ==
  \/ \E d \in Devices, n \in Usernames : Quiet /\ InitializeUser_FindName(1, d, n)
  \/ InitializeUser_FindDevice(1)
  \/ InitializeUser_Insert(1)
  \/ \E sc \in ScoreValues :
       \E token \in Credentials(now) : Quiet /\ SubmitScore_FindUser(1, token, sc)
  \/ SubmitScore_Insert(1)
  \/ Quiet /\ WeeklyLeaderboard(1)
  \/ Tick

SpecSeq == Init /\ [][NextSeq]_vars

\* ------------------------------------------------------ every way to start
\* The application after lifespan, for each way it can end: the client
\* could not be made, the connection check failed, the check succeeded.
InitStartup ==
  /\ \E client_ok \in BOOLEAN, ping_ok \in BOOLEAN :
       /\ (ping_ok => client_ok)
       /\ ping = lifespan(client_ok, ping_ok).ping
       /\ db = lifespan(client_ok, ping_ok).db
  /\ now = 0
  /\ users = <<>>
  /\ scores = <<>>
  /\ pc = [s \in Slots |-> "idle"]
  /\ req = [s \in Slots |-> NoReq]
  /\ loc = [s \in Slots |-> NoLoc]
  /\ last = NoLast
  /\ initLog = <<>>
  /\ raced = FALSE
  /\ nreq = 0

\* A store that did not answer at startup answers from now on (the driver
\* keeps looking for the server; the handle stays the one lifespan assigned).
StoreRecovers ==
  /\ db = "unreachable"
  /\ db' = "connected"
  /\ UNCHANGED <<ping, now, users, scores, pc, req, loc, last, initLog, raced, nreq>>

\* InitializeUser requests, one at a time, after any startup.
NextStartup ==
  \/ \E d \in Devices, n \in Usernames : Quiet /\ InitializeUser_FindName(1, d, n)
  \/ InitializeUser_FindDevice(1)
  \/ InitializeUser_Insert(1)
  \/ StoreRecovers

SpecStartup == InitStartup /\ [][NextStartup]_vars

\* ------------------------------------------- the leaderboard on its own
\* The leaderboard is a function of the scores collection.  The stores it
\* is applied to: n devices with one account and one score document each,
\* scored after a pattern, and optionally a second, later score document of
\* device 1, lower or higher than its first.  A score document carries the
\* username of the account that find_one returned for the device when the
\* score was submitted.  In the "renamed" stores device 1 has two accounts,
\* from two overlapping /auth/init requests, and find_one returned the first
\* for the first submission and the second for the later one.
BoardSizes == {1, 2, 3, LIMIT - 1, LIMIT, LIMIT + 1}
BoardPatterns == {"flat", "asc", "desc", "mod"}
BoardExtras == {"none", "low", "high", "low_renamed", "high_renamed"}

\* The username of device d: its number in binary, "b" for one, "a" for zero.
BoardName(d) == [i \in 1..6 |-> IF (d \div (2 ^ (i - 1))) % 2 = 1 THEN "b" ELSE "a"]

BoardScore(pattern, d) ==
  CASE pattern = "flat" -> 2
    [] pattern = "asc" -> d
    [] pattern = "desc" -> 0 - d
    [] OTHER -> d % 3

BoardUsers(n, extra) ==
  [d \in 1..n |-> [device_id |-> d, username |-> BoardName(d), created_at |-> 0]]
  \o (IF extra \in {"low_renamed", "high_renamed"}
      THEN << [device_id |-> 1, username |-> <<"a", ".">>, created_at |-> 0] >>
      ELSE << >>)

BoardScores(n, pattern, extra, t) ==
  [d \in 1..n |-> [device_id |-> d, username |-> BoardName(d),
                   score |-> BoardScore(pattern, d), timestamp |-> 0]]
  \o (CASE extra = "low" ->
             << [device_id |-> 1, username |-> BoardName(1),
                 score |-> 0 - 5, timestamp |-> t] >>
        [] extra = "high" ->
             << [device_id |-> 1, username |-> BoardName(1),
                 score |-> 100, timestamp |-> t] >>
        [] extra = "low_renamed" ->
             << [device_id |-> 1, username |-> <<"a", ".">>,
                 score |-> 0 - 5, timestamp |-> t] >>
        [] extra = "high_renamed" ->
             << [device_id |-> 1, username |-> <<"a", ".">>,
                 score |-> 100, timestamp |-> t] >>
        [] OTHER -> << >>)

InitBoard ==
  /\ ping = "ok"
  /\ db = "connected"
  /\ now = ExpiryDays
  /\ \E n \in BoardSizes, pattern \in BoardPatterns, extra \in BoardExtras :
       /\ users = BoardUsers(n, extra)
       /\ scores = BoardScores(n, pattern, extra, ExpiryDays)
  /\ pc = [s \in Slots |-> "idle"]
  /\ req = [s \in Slots |-> NoReq]
  /\ loc = [s \in Slots |-> NoLoc]
  /\ last = NoLast
  /\ initLog = <<>>
  /\ raced = FALSE
  /\ nreq = 0

NextBoard == WeeklyLeaderboard(1)

SpecBoard == InitBoard /\ [][NextBoard]_vars

\* ------------------------------------------------------------ properties
\* The User documents of device d in the collection coll.
RecordsOf(coll, d) == { i \in 1..Len(coll) : coll[i].device_id = d }

\* C1 - Device permanence, requests processed one at a time: once an
\* InitializeUser call for device D has succeeded with resolved username U,
\* every later successful call for D returns exactly U with new_user false,
\* whatever name is requested and whatever other devices did in between.
C1_DevicePermanence ==
  \A i \in 1..Len(initLog) : \A j \in 1..Len(initLog) :
    ( /\ i < j
      /\ initLog[i].device_id = initLog[j].device_id
      /\ initLog[i].status = 200
      /\ initLog[j].status = 200 )
    => /\ initLog[j].username = initLog[i].username
       /\ initLog[j].new_user = FALSE

\* Device D succeeded, another device created its account, then D asked for
\* another name and succeeded again.
C1_Witness ==
  /\ Len(initLog) = 3
  /\ initLog[1].device_id = initLog[3].device_id
  /\ initLog[2].device_id # initLog[1].device_id
  /\ initLog[1].status = 200 /\ initLog[2].new_user /\ initLog[3].status = 200
  /\ initLog[3].requested # initLog[1].username

\* C2 - Name collision: if a User record with username N exists for device
\* A, InitializeUser(B, N') with B # A and N' equal to N ignoring case fails
\* with UsernameTaken (403) and leaves the User records unchanged.
C2_NameCollision ==
  \A i \in 1..Len(initLog) :
    LET e == initLog[i] IN
    (\E k \in 1..Len(e.users0) :
        /\ e.users0[k].device_id # e.device_id
        /\ EqualsIgnoreCase(e.users0[k].username, e.requested))
    => /\ e.status = 403
       /\ e.users1 = e.users0

\* Some User record of a device other than d in coll has a username equal to
\* r ignoring letter case.
NameOwnedElsewhere(coll, d, r) ==
  \E k \in 1..Len(coll) :
    coll[k].device_id # d /\ EqualsIgnoreCase(coll[k].username, r)

\* C3 - Device restore: if device D has a User record with username U,
\* InitializeUser(D, R) for every R # U succeeds, returns U with new_user
\* false and writes no record, also for a name R that another device owns.
C3_DeviceRestoreAnyName ==
  \A i \in 1..Len(initLog) :
    LET e == initLog[i] IN
    \A k \in RecordsOf(e.users0, e.device_id) :
      e.users0[k].username # e.requested
      => /\ e.status = 200
         /\ e.username = e.users0[k].username
         /\ e.new_user = FALSE
         /\ e.users1 = e.users0

\* C3, for the requested names that no other device owns - Device restore:
\* if device D has a User record with username U, InitializeUser(D, R) for
\* every R # U that is equal ignoring case to no username of another device
\* succeeds, returns U with new_user false and writes no record.
C3_DeviceRestoreUnownedName ==
  \A i \in 1..Len(initLog) :
    LET e == initLog[i] IN
    \A k \in RecordsOf(e.users0, e.device_id) :
      ( /\ e.users0[k].username # e.requested
        /\ ~NameOwnedElsewhere(e.users0, e.device_id, e.requested) )
      => /\ e.status = 200
         /\ e.username = e.users0[k].username
         /\ e.new_user = FALSE
         /\ e.users1 = e.users0

\* C4 - Idempotent re-init: for a never-seen device D and a username N that
\* nobody owns, two consecutive calls InitializeUser(D, N) both succeed with
\* username N, the first with new_user true, the second with new_user false,
\* and exactly one User record of D exists after them.
C4_IdempotentReinit ==
  \A i \in 1..(Len(initLog) - 1) :
    LET a == initLog[i]
        b == initLog[i + 1]
    IN ( /\ a.device_id = b.device_id
         /\ a.requested = b.requested
         /\ b.users0 = a.users1
         /\ RecordsOf(a.users0, a.device_id) = {}
         /\ \A k \in 1..Len(a.users0) :
              ~EqualsIgnoreCase(a.users0[k].username, a.requested) )
       => /\ a.status = 200 /\ a.new_user = TRUE /\ a.username = a.requested
          /\ b.status = 200 /\ b.new_user = FALSE /\ b.username = a.requested
          /\ Cardinality(RecordsOf(b.users1, a.device_id)) = 1

\* C8 as stated - Device uniqueness: in every reachable state, also under
\* interleaved InitializeUser requests, no two User records have the same
\* device_id.
C8_DeviceUnique ==
  \A i \in 1..Len(users) : \A j \in 1..Len(users) :
    users[i].device_id = users[j].device_id => i = j

\* C8 amended - Device uniqueness holds in every state reached with the
\* requests processed one at a time (no request received while another was
\* in flight).
C8_DeviceUniqueOneAtATime == ~raced => C8_DeviceUnique

\* Two devices have an account and a device that already had one was
\* served again, one request at a time.
C8_Witness ==
  /\ ~raced
  /\ Len(users) = 2
  /\ Len(initLog) = 3
  /\ \E i \in 1..Len(initLog) :
       RecordsOf(initLog[i].users0, initLog[i].device_id) # {}

\* C9 - Token round trip: for every successful InitializeUser call for D,
\* verifying the returned token (when it is returned, and at any later time
\* before its expiry) yields exactly D, and the token's name claim is the
\* username the call returned, which is a username stored for D.
C9_TokenRoundTrip ==
  \A i \in 1..Len(initLog) :
    LET e == initLog[i] IN
    e.status = 200
    => /\ get_current_user(e.access_token, e.at) = <<e.device_id>>
       /\ now < e.at + ExpiryDays
            => get_current_user(e.access_token, now) = <<e.device_id>>
       /\ e.access_token.name = e.username
       /\ \E k \in RecordsOf(users, e.device_id) : users[k].username = e.username

\* A device was restored under its stored name, which differs from the name
\* it requested, and the clock has advanced since, short of the expiry.
C9_Witness ==
  \E i \in 1..Len(initLog) :
    LET e == initLog[i] IN
    /\ e.status = 200
    /\ e.username # e.requested
    /\ e.at < now
    /\ now < e.at + ExpiryDays

\* A /scores/submit request carrying token is received in this step: it
\* either finishes in the same step (last' is its record) or its handler
\* suspends in a slot.
SubmitReceived(token) ==
  /\ nreq' = nreq + 1
  /\ \/ pc' = pc /\ last'.req.op = "submit" /\ last'.req.token = token
     \/ \E s \in Slots : /\ pc[s] = "idle" /\ pc'[s] # "idle"
                         /\ req'[s].op = "submit" /\ req'[s].token = token

\* The token defects at time t: no bearer header, no JWT, a signature made
\* with another key, an expiry that has passed, no subject claim.
Defective(token, t) ==
  \/ token.kind # "jwt"
  \/ token.key # SECRET_KEY
  \/ token.exp <= t
  \/ ~token.has_sub

\* C6 - Auth gate: a SubmitScore request without bearer header, with a
\* malformed token, a wrongly signed token or an expired token ends, in the
\* step it is received, in an authentication failure (401 "Invalid token"
\* for every token defect), and the users and scores collections are
\* unchanged.
C6_AuthGate ==
  [][ \A token \in Credentials(now) :
        (SubmitReceived(token) /\ Defective(token, now))
        => /\ pc' = pc
           /\ last'.req.token = token
           /\ last'.resp.status \in {401, 403}
           /\ token.kind # "none"
                => (last'.resp.status = 401 /\ last'.resp.detail = "Invalid token")
           /\ users' = users
           /\ scores' = scores ]_vars

\* A token issued by /auth/init to a stored user was refused after its
\* expiry.
C6_Witness ==
  /\ last.req.op = "submit"
  /\ last.req.token \in IssuedTokens
  /\ last.req.token.exp <= now
  /\ RecordsOf(users, last.req.token.sub) # {}
  /\ last.resp.status = 401

\* C7 - UserNotFound: a SubmitScore request whose token verifies but whose
\* device has no User record fails with 404 "User not found", distinct from
\* the 401 of an invalid token, and no Score record is written.
C7_UserNotFound ==
  [][ \A token \in Credentials(now) :
        ( /\ SubmitReceived(token)
          /\ ~Defective(token, now)
          /\ RecordsOf(users, token.sub) = {} )
        => /\ pc' = pc
           /\ last'.req.token = token
           /\ last'.resp.status = 404
           /\ last'.resp.detail = "User not found"
           /\ users' = users
           /\ scores' = scores ]_vars

\* A verified token for a device without account was answered 404 while
\* another device has an account.
C7_Witness ==
  /\ last.req.op = "submit"
  /\ last.resp.status = 404
  /\ ~Defective(last.req.token, now)
  /\ users # <<>>
  /\ scores = <<>>

\* The devices that have a Score document.
ScoreDevices == { scores[i].device_id : i \in 1..Len(scores) }

\* C5 - Leaderboard correctness: the result of GetWeeklyLeaderboard holds
\* every device at most once, each entry with the maximum score over all
\* Score records of its device whatever their timestamps, the scores are
\* non-increasing along the sequence, and the length is min(50, number of
\* devices with a Score record).  (Every store write ends its request, so
\* scores is still the collection the last finished leaderboard call read.)
C5_LeaderboardCorrect ==
  last.req.op = "board"
  => LET r == last.resp.results IN
     /\ \A k \in 1..Len(r) : \A m \in 1..Len(r) : r[k]._id = r[m]._id => k = m
     /\ \A k \in 1..Len(r) :
          /\ \E i \in 1..Len(scores) :
               scores[i].device_id = r[k]._id /\ scores[i].score = r[k].score
          /\ \A i \in 1..Len(scores) :
               scores[i].device_id = r[k]._id => scores[i].score <= r[k].score
     /\ \A k \in 1..(Len(r) - 1) : r[k].score >= r[k + 1].score
     /\ Len(r) = Min(LIMIT, Cardinality(ScoreDevices))
     /\ Len(last.resp.entries) = Len(r)
     /\ \A k \in 1..Len(r) : last.resp.entries[k].score = r[k].score

\* The leaderboard of a store with more than 50 devices was cut to 50; a
\* device whose best score is its second submission is on it with that
\* score, and so is a score submitted long before the request.
C5_Witness ==
  /\ last.req.op = "board"
  /\ Cardinality(ScoreDevices) > LIMIT
  /\ Len(last.resp.results) = LIMIT
  /\ \E k \in 1..LIMIT : \E i \in 1..Len(scores) : \E j \in 1..Len(scores) :
       /\ scores[i].device_id = last.resp.results[k]._id
       /\ scores[j].device_id = last.resp.results[k]._id
       /\ i < j
       /\ scores[i].score < scores[j].score
       /\ scores[j].score = last.resp.results[k].score
  /\ \E k \in 1..LIMIT : \E i \in 1..Len(scores) :
       /\ scores[i].device_id = last.resp.results[k]._id
       /\ scores[i].score = last.resp.results[k].score
       /\ scores[i].timestamp + 7 < now

\* The (device, score) pairs of a leaderboard result.
ResultSet(r) == { <<r[k]._id, r[k].score>> : k \in 1..Len(r) }

\* C10 - GetWeeklyLeaderboard is side-effect-free: a leaderboard call
\* leaves users and scores unchanged, and a call that follows another one
\* with no write in between returns the same set of (device, score) results.
C10_SideEffectFree ==
  [][ (nreq' = nreq + 1 /\ pc' = pc /\ last'.req.op = "board")
      => /\ users' = users
         /\ scores' = scores
         /\ last.req.op = "board"
              => ResultSet(last'.resp.results) = ResultSet(last.resp.results) ]_vars

\* C11 - DatabaseUnavailable: whenever the connection check in lifespan
\* failed, every InitializeUser request returns 500 "Database not connected"
\* and has issued no store read and no store write.
C11_DatabaseUnavailable ==
  ping = "failed"
  => \A i \in 1..Len(initLog) :
       /\ initLog[i].status = 500
       /\ initLog[i].detail = "Database not connected"
       /\ initLog[i].reads = 0
       /\ initLog[i].writes = 0

\* C12 - Username uniqueness: after any sequence of InitializeUser requests
\* processed one at a time, no two User records have usernames that are
\* equal ignoring letter case, whatever characters the usernames contain.
C12_UsernameUnique ==
  ~raced
  => \A i \in 1..Len(users) : \A j \in 1..Len(users) :
       EqualsIgnoreCase(users[i].username, users[j].username) => i = j

\* C13 - No false rejection, requests processed one at a time:
\* InitializeUser(D, N) fails with UsernameTaken only if a User record of
\* another device has a username equal to N ignoring case; for a never-seen
\* device D and a name N equal ignoring case to no stored username, the call
\* appends the record (D, N) with the submitted casing and returns N with
\* new_user true.
C13_NoFalseRejection ==
  \A i \in 1..Len(initLog) :
    LET e == initLog[i] IN
    /\ e.status = 403 => NameOwnedElsewhere(e.users0, e.device_id, e.requested)
    /\ ( /\ RecordsOf(e.users0, e.device_id) = {}
         /\ \A k \in 1..Len(e.users0) :
              ~EqualsIgnoreCase(e.users0[k].username, e.requested) )
       => /\ e.status = 200
          /\ e.new_user = TRUE
          /\ e.username = e.requested
          /\ Len(e.users1) = Len(e.users0) + 1
          /\ SubSeq(e.users1, 1, Len(e.users0)) = e.users0
          /\ e.users1[Len(e.users1)].device_id = e.device_id
          /\ e.users1[Len(e.users1)].username = e.requested

\* C14 - Leaderboard tie determinism: for a fixed store state, every call
\* of GetWeeklyLeaderboard returns the same sequence: a call that follows
\* another one with no write in between returns the same entries in the same
\* order, tied devices included.
C14_TieDeterminism ==
  [][ ( /\ nreq' = nreq + 1 /\ pc' = pc /\ last'.req.op = "board"
        /\ last.req.op = "board"
        /\ scores' = scores )
      => last'.resp.entries = last.resp.entries ]_vars

\* C15 - Leaderboard username-at-max: in every reachable state the
\* username of each leaderboard entry is the username stored on a Score
\* record of that device whose score equals the device's maximum score,
\* also when the Score records of one device carry different usernames.
C15_UsernameAtMax ==
  last.req.op = "board"
  => LET r == last.resp.results IN
     \A k \in 1..Len(r) :
       /\ last.resp.entries[k].username = r[k].username
       /\ \E i \in 1..Len(scores) :
            /\ scores[i].device_id = r[k]._id
            /\ scores[i].username = r[k].username
            /\ \A j \in 1..Len(scores) :
                 scores[j].device_id = r[k]._id => scores[j].score <= scores[i].score

\* A device has Score records under two usernames, the earlier one with the
\* lower score, and is on the leaderboard under the username of the later.
C15_Witness ==
  /\ last.req.op = "board"
  /\ \E k \in 1..Len(last.resp.entries) :
       \E i \in 1..Len(scores) : \E j \in 1..Len(scores) :
         /\ i < j
         /\ scores[i].device_id = last.resp.results[k]._id
         /\ scores[j].device_id = last.resp.results[k]._id
         /\ scores[i].username # scores[j].username
         /\ scores[i].score < scores[j].score
         /\ last.resp.entries[k].username = scores[j].username

\* C16 - Positional rank: in every leaderboard result of length n the rank
\* values are 1, 2, ..., n in sequence order, assigned after the truncation
\* to 50, so that entries with equal scores have different ranks and an
\* entry with a lower rank number never has a smaller score than one with a
\* higher rank number.
C16_PositionalRank ==
  last.req.op = "board"
  => LET e == last.resp.entries IN
     /\ Len(e) = Min(LIMIT, Cardinality(ScoreDevices))
     /\ \A k \in 1..Len(e) : e[k].rank = k
     /\ \A k \in 1..Len(e) : \A m \in 1..Len(e) :
          /\ (k # m => e[k].rank # e[m].rank)
          /\ (e[k].rank < e[m].rank => e[k].score >= e[m].score)

\* A leaderboard cut to 50 entries, all on the same score: the last entry
\* has rank 50.
C16_Witness ==
  /\ last.req.op = "board"
  /\ Cardinality(ScoreDevices) > LIMIT
  /\ Len(last.resp.entries) = LIMIT
  /\ last.resp.entries[1].score = last.resp.entries[LIMIT].score
  /\ last.resp.entries[LIMIT].rank = LIMIT

\* coll1 is coll0 with further documents added at the end.
Extends(coll1, coll0) ==
  /\ Len(coll0) <= Len(coll1)
  /\ SubSeq(coll1, 1, Len(coll0)) = coll0

\* C17 - Successful SubmitScore effect: a SubmitScore with a valid token for
\* an existing device goes on to the store write and answers "Score saved";
\* the write appends exactly one Score record whose device_id is the token's
\* subject, whose username is the username of a User record stored for that
\* device and whose score is the submitted integer, unchecked; the User
\* collection and the Score records stored before are unchanged.
C17_SubmitEffect ==
  [][ /\ \A token \in Credentials(now) :
           ( /\ SubmitReceived(token)
             /\ ~Defective(token, now)
             /\ RecordsOf(users, token.sub) # {} )
           => /\ \E s \in Slots : pc'[s] = "submit_insert" /\ req'[s].token = token
              /\ users' = users /\ scores' = scores
      /\ \A s \in Slots :
           (pc[s] = "submit_insert" /\ pc'[s] = "idle")
           => /\ last'.req = [req[s] EXCEPT !.writes = 1]
              /\ last'.resp.status = 200
              /\ last'.resp.detail = "Score saved"
              /\ Len(scores') = Len(scores) + 1
              /\ SubSeq(scores', 1, Len(scores)) = scores
              /\ scores'[Len(scores')].device_id = req[s].token.sub
              /\ scores'[Len(scores')].score = req[s].score
              /\ \E k \in RecordsOf(users, req[s].token.sub) :
                   users[k].username = scores'[Len(scores')].username
              /\ users' = users ]_vars

\* The same negative score was submitted twice with the token of a stored
\* user and is stored twice.
C17_Witness ==
  /\ Len(scores) = 2
  /\ scores[1].device_id = scores[2].device_id
  /\ scores[1].score = scores[2].score
  /\ scores[1].score < 0
  /\ last.req.op = "submit"
  /\ last.req.token \in IssuedTokens
  /\ last.resp.status = 200

\* C18 - Append-only store: in every step of every behaviour, under any
\* interleaving of InitializeUser, SubmitScore and GetWeeklyLeaderboard, each
\* User record and each Score record present before the step is present
\* after it with the same fields; the collections only grow.
C18_AppendOnly ==
  [][ Extends(users', users) /\ Extends(scores', scores) ]_vars

\* Requests overlapped, and both collections have received documents.
C18_Witness ==
  /\ raced
  /\ Quiet
  /\ users # <<>>
  /\ scores # <<>>

\* C19 - Write accounting of InitializeUser, under any interleaving: each
\* call writes at most one User record and returns new_user true if and only
\* if it wrote one; a call that fails with UsernameTaken or that resolves to
\* an existing record, by name or by device, writes nothing.  The User
\* collection holds one record per finished call that returned new_user true,
\* and a call served with no other request in flight leaves the collection
\* as it found it plus what it wrote.
C19_WriteAccounting ==
  /\ \A i \in 1..Len(initLog) :
       LET e == initLog[i] IN
       /\ e.writes <= 1
       /\ e.new_user <=> e.writes = 1
       /\ e.status = 403 => e.writes = 0
       /\ e.detail \in {"Welcome back", "Restored previous account"}
            => (e.status = 200 /\ e.writes = 0)
       /\ ~raced => ( /\ Extends(e.users1, e.users0)
                      /\ Len(e.users1) = Len(e.users0) + e.writes )
  /\ Len(users) = Cardinality({ i \in 1..Len(initLog) : initLog[i].new_user })

\* One call created a record, one was refused with UsernameTaken and one
\* was resolved to an existing record.
C19_Witness ==
  /\ \E i \in 1..Len(initLog) : initLog[i].new_user
  /\ \E i \in 1..Len(initLog) : initLog[i].status = 403
  /\ \E i \in 1..Len(initLog) :
       initLog[i].detail \in {"Welcome back", "Restored previous account"}

\* C20 - Issued tokens refer to an existing user: in every reachable state a
\* User record exists for the device of every token an InitializeUser call
\* has returned, and a SubmitScore carrying such a token does not end in
\* UserNotFound.
C20_IssuedTokenHasUser ==
  /\ \A token \in IssuedTokens : RecordsOf(users, token.sub) # {}
  /\ (last.req.op = "submit" /\ last.req.token \in IssuedTokens)
       => last.resp.status # 404

\* A token returned by a call that resolved to an existing record was used
\* to submit a score, which was saved.
C20_Witness ==
  /\ last.req.op = "submit"
  /\ last.resp.status = 200
  /\ \E i \in 1..Len(initLog) :
       /\ initLog[i].status = 200
       /\ ~initLog[i].new_user
       /\ initLog[i].access_token = last.req.token

====
